---- MODULE Spec2Model ----
(***************************************************************************)
(* scripts/replace_resolution_pipeline_methods.py                          *)
(*                                                                         *)
(* The script reads ResolutionPipeline.php into the global `text`, calls   *)
(* replace_docblock six times and writes `text` back.  A text is a         *)
(* sequence of symbols.  The characters the regular expression looks at    *)
(* ("/", "*", "(", a space, a newline) are one symbol each; a word of the  *)
(* pattern (public, private, function, a function name) and any other run *)
(* of characters that holds none of these is one symbol as well.           *)
(***************************************************************************)
EXTENDS Integers, Sequences, FiniteSets, TLC

VARIABLES
    file,     \* contents of ResolutionPipeline.php on disk
    text,     \* the module-level global `text`
    pc,       \* 0: before read_text, 1..6: before the i-th call, 7: before write_text, 8: past it
    exit,     \* exit status of the process, -1 while it runs
    msg,      \* function name carried by the SystemExit message, "" when none
    run,      \* number of the current invocation of the script
    before,   \* contents of the file when the current invocation started
    reads,    \* read_text calls of the current invocation
    writes,   \* write_text calls of the current invocation
    calls,    \* the replace_docblock calls of the current invocation, in order
    outcomes  \* one record per finished earlier invocation

vars == <<file, text, pc, exit, msg, run, before, reads, writes, calls, outcomes>>

\* ---------------------------------------------------------------- bounds
MaxCopies == 2
MaxSegs == 3
MaxRuns == 2

\* ---------------------------------------------------------------- text helpers
RECURSIVE Concat(_)
Concat(ss) == IF ss = <<>> THEN <<>> ELSE Head(ss) \o Concat(Tail(ss))

RECURSIVE Repeat(_, _)
Repeat(s, n) == IF n = 0 THEN <<>> ELSE s \o Repeat(s, n - 1)

Min(S) == CHOOSE x \in S : \A y \in S : x <= y

\* \s of the pattern, restricted to the two whitespace characters of the model
IsSpace(c) == c \in {" ", "\n"}

Sp4 == <<" ", " ", " ", " ">>
Sp5 == <<" ", " ", " ", " ", " ">>

\* ---------------------------------------------------------------- the six requests
\* A triple-quoted block of the script: "    /**\n     * <summary>\n     *\n     * @see <ref>\n     */"
DocBlock(summary, see) ==
    Sp4 \o <<"/", "*", "*", "\n">>
        \o Sp5 \o <<"*", " ", summary, "\n">>
        \o Sp5 \o <<"*", "\n">>
        \o Sp5 \o <<"*", " ", see, "\n">>
        \o Sp5 \o <<"*", "/">>

Requests ==
    << [name |-> "__construct", vis |-> "public",
        block |-> DocBlock("Initialize the default resolution pipeline.",
                           "@see docs/classes/Resolve/ResolutionPipeline.html#__construct")],
       [name |-> "send", vis |-> "public",
        block |-> DocBlock("Set the resolution context to be processed.",
                           "@see docs/classes/Resolve/ResolutionPipeline.html#send")],
       [name |-> "through", vis |-> "public",
        block |-> DocBlock("Configure the pipe execution order.",
                           "@see docs/classes/Resolve/ResolutionPipeline.html#through")],
       [name |-> "thenReturn", vis |-> "public",
        block |-> DocBlock("Execute the configured pipeline and return the result.",
                           "@see docs/classes/Resolve/ResolutionPipeline.html#thenReturn")],
       [name |-> "carry", vis |-> "private",
        block |-> DocBlock("Build the pipeline execution chain.",
                           "@see docs/classes/Resolve/ResolutionPipeline.html#carry")],
       [name |-> "getPipeInstance", vis |-> "private",
        block |-> DocBlock("Resolve a pipe class name to its instance.",
                           "@see docs/classes/Resolve/ResolutionPipeline.html#getPipeInstance")] >>

NumRequests == Len(Requests)

\* ---------------------------------------------------------------- the pattern
\* /\*\* at position i
IsOpen(s, i) == /\ i + 2 <= Len(s)
                /\ s[i] = "/" /\ s[i + 1] = "*" /\ s[i + 2] = "*"

\* \s* from position k: the first position at or after k that holds no whitespace
RECURSIVE SkipWs(_, _)
SkipWs(s, k) == IF k <= Len(s) /\ IsSpace(s[k]) THEN SkipWs(s, k + 1) ELSE k

\* TailEnd with the visibility keyword not compared: either keyword is accepted
TailEndAnyVis(s, j, name, vis) ==
    LET a == SkipWs(s, j + 2)
        b == SkipWs(s, a + 1)
        c == SkipWs(s, b + 1)
        d == SkipWs(s, c + 1)
    IN  IF /\ j + 1 <= Len(s) /\ s[j] = "*" /\ s[j + 1] = "/"
           /\ a > j + 2 /\ a <= Len(s) /\ s[a] \in {"public", "private"}
           /\ b > a + 1 /\ b <= Len(s) /\ s[b] = "function"
           /\ c > b + 1 /\ c <= Len(s) /\ s[c] = name
           /\ d <= Len(s) /\ s[d] = "("
        THEN d ELSE 0

\* \*/\s+ vis \s+function\s+ name \s*\(  anchored at position j:
\* the position of the "(" that ends it, 0 when it does not match there
TailEnd(s, j, name, vis) ==
    LET a == SkipWs(s, j + 2)
        b == SkipWs(s, a + 1)
        c == SkipWs(s, b + 1)
        d == SkipWs(s, c + 1)
    IN  IF /\ j + 1 <= Len(s) /\ s[j] = "*" /\ s[j + 1] = "/"
           /\ a > j + 2 /\ a <= Len(s) /\ s[a] = vis
           /\ b > a + 1 /\ b <= Len(s) /\ s[b] = "function"
           /\ c > b + 1 /\ c <= Len(s) /\ s[c] = name
           /\ d <= Len(s) /\ s[d] = "("
        THEN d ELSE 0

Tails(s, name, vis) == {j \in 1..Len(s) : TailEnd(s, j, name, vis) # 0}

\* Search with a comment part that cannot run over a */: the span starts at the /** nearest
\* before the first */ the rest of the pattern matches at
SearchNearest(s, name, vis) ==
    LET tails == {j \in 1..Len(s) : /\ TailEnd(s, j, name, vis) # 0
                                     /\ \E i \in 1..(j - 3) :
                                           /\ IsOpen(s, i)
                                           /\ \A q \in (i + 3)..(j - 1) :
                                                 ~(s[q] = "*" /\ s[q + 1] = "/")}
    IN  IF tails = {} THEN [s |-> 0, c |-> 0, e |-> 0]
        ELSE LET j == Min(tails)
                 i == Min({o \in 1..(j - 3) :
                             /\ IsOpen(s, o)
                             /\ \A q \in (o + 3)..(j - 1) : ~(s[q] = "*" /\ s[q + 1] = "/")})
             IN  [s |-> i, c |-> j, e |-> TailEnd(s, j, name, vis)]

\* pattern.search(s): the leftmost /** from which the pattern can match, and, .*? being
\* lazy, the nearest */ after it that the rest of the pattern matches at.
\* [s |-> 0, c |-> 0, e |-> 0] when there is no match; otherwise the span is s..e and
\* c is where its */ starts.
Search(s, name, vis) ==
    LET tails == Tails(s, name, vis)
        opens == {i \in 1..Len(s) : IsOpen(s, i) /\ \E j \in tails : j >= i + 3}
    IN  IF opens = {} THEN [s |-> 0, c |-> 0, e |-> 0]
        ELSE LET i == Min(opens)
                 j == Min({t \in tails : t >= i + 3})
             IN  [s |-> i, c |-> j, e |-> TailEnd(s, j, name, vis)]

\* expansion of the replacement template by subn: a backslash escapes the next character
RECURSIVE Expand(_)
Expand(t) ==
    IF t = <<>> THEN <<>>
    ELSE IF Head(t) = "\\" /\ Len(t) >= 2
         THEN (IF t[2] = "n" THEN <<"\n">>
               ELSE IF t[2] = "\\" THEN <<"\\">>
               ELSE <<t[1], t[2]>>) \o Expand(Tail(Tail(t)))
         ELSE <<Head(t)>> \o Expand(Tail(t))

\* Replacement with the "\n    " between the block and the declaration left out
ReplacementNoIndent(name, block, vis) ==
    block \o <<vis, " ", "function", " ", name, "(">>

\* replacement = new_block + "\n    " + visibility + " function " + func_name + "("
Replacement(name, block, vis) ==
    block \o <<"\n">> \o Sp4 \o <<vis, " ", "function", " ", name, "(">>

\* subn without count=1: every non-overlapping match is replaced
RECURSIVE SubnAll(_, _, _, _)
SubnAll(s, name, block, vis) ==
    LET m == Search(s, name, vis)
    IN  IF m.s = 0 THEN [text |-> s, count |-> 0, s |-> 0, c |-> 0, e |-> 0]
        ELSE LET rest == SubnAll(SubSeq(s, m.e + 1, Len(s)), name, block, vis)
             IN  [text |-> SubSeq(s, 1, m.s - 1)
                             \o Expand(Replacement(name, block, vis))
                             \o rest.text,
                  count |-> 1 + rest.count, s |-> m.s, c |-> m.c, e |-> m.e]

\* pattern.subn(replacement, text, count=1)
Subn(s, name, block, vis) ==
    LET m == Search(s, name, vis)
    IN  IF m.s = 0 THEN [text |-> s, count |-> 0, s |-> 0, c |-> 0, e |-> 0]
        ELSE [text |-> SubSeq(s, 1, m.s - 1)
                        \o Expand(Replacement(name, block, vis))
                        \o SubSeq(s, m.e + 1, Len(s)),
              count |-> 1, s |-> m.s, c |-> m.c, e |-> m.e]

\* ---------------------------------------------------------------- input files
\* An existing documentation block
OldDoc == <<"/", "*", "*", " ", "old doc", " ", "*", "/">>
Gap == <<"\n", " ">>
Header(name, vis) == <<vis, " ", "function", " ", name, "(">>
WideHeader(name, vis) == <<vis, " ", " ", "function", "\n", name, " ", "(">>
Body == <<")", "{", "body", "}", "\n">>
Other(vis) == IF vis = "public" THEN "private" ELSE "public"

\* A class file: the six methods in some order, one of them possibly missing, declared
\* with the other visibility or spaced widely; the list of methods possibly repeated.
Orders ==
    {[i \in 1..NumRequests |-> i], [i \in 1..NumRequests |-> NumRequests + 1 - i]}
    \cup {[i \in 1..NumRequests |-> IF i = k THEN k + 1 ELSE IF i = k + 1 THEN k ELSE i]
          : k \in 1..(NumRequests - 1)}

Defects == {[kind |-> "none", k |-> 0]}
           \cup [kind : {"drop", "flip", "wide"}, k : 1..NumRequests]

Leads == { <<>>,
           <<"/", "*", "*", " ", "class doc", " ", "*", "/", "\n", "class", "{", "\n">>,
           <<"class", "{", "\n">> }

Method(k, defect) ==
    LET r == Requests[k]
        hit == defect.k = k
    IN  IF hit /\ defect.kind = "drop" THEN <<>>
        ELSE OldDoc \o Gap
             \o (IF hit /\ defect.kind = "wide" THEN WideHeader(r.name, r.vis)
                 ELSE IF hit /\ defect.kind = "flip" THEN Header(r.name, Other(r.vis))
                 ELSE Header(r.name, r.vis))
             \o Body

ClassBody(order, defect) == Concat([i \in 1..NumRequests |-> Method(order[i], defect)])

ClassFiles ==
    {lead \o Repeat(ClassBody(order, defect), copies) \o <<"}">> :
        lead \in Leads, order \in Orders, defect \in Defects, copies \in 1..MaxCopies}

\* Short files put together from pieces of documentation blocks and declarations
Pieces ==
    { OldDoc,
      Gap \o Header("__construct", "public"),
      Gap \o Header("send", "public"),
      Gap \o Header("__construct", "private"),
      Gap \o WideHeader("__construct", "public"),
      Header("__construct", "public"),
      <<"x">>,
      <<"/", "*", "*">>,
      <<"*", "/">> }

PieceFiles ==
    UNION {{Concat(ps) : ps \in [1..n -> Pieces]} : n \in 0..MaxSegs}

Files == ClassFiles \cup PieceFiles

\* ---------------------------------------------------------------- the script
Init ==
    /\ file \in Files
    /\ text = <<>>
    /\ pc = 0
    /\ exit = -1
    /\ msg = ""
    /\ run = 1
    /\ before = file
    /\ reads = 0
    /\ writes = 0
    /\ calls = <<>>
    /\ outcomes = <<>>

\* text = path.read_text(encoding="utf-8")
Read ==
    /\ exit = -1 /\ pc = 0
    /\ text' = file
    /\ reads' = reads + 1
    /\ pc' = 1
    /\ UNCHANGED <<file, exit, msg, run, before, writes, calls, outcomes>>

\* ReplaceDocblock that goes on to the next statement when nothing matched
ReplaceDocblockNoRaise ==
    /\ exit = -1 /\ pc \in 1..NumRequests
    /\ LET r == Requests[pc]
           res == Subn(text, r.name, r.block, r.vis)
       IN  /\ text' = res.text
           /\ calls' = Append(calls, [i |-> pc, in |-> text, out |-> res.text,
                                      count |-> res.count, s |-> res.s, c |-> res.c,
                                      e |-> res.e])
           /\ pc' = pc + 1
    /\ UNCHANGED <<file, exit, msg, run, before, reads, writes, outcomes>>

\* ReplaceDocblock whose message carries the visibility instead of the function name
ReplaceDocblockWrongName ==
    /\ exit = -1 /\ pc \in 1..NumRequests
    /\ LET r == Requests[pc]
           res == Subn(text, r.name, r.block, r.vis)
       IN  /\ text' = res.text
           /\ calls' = Append(calls, [i |-> pc, in |-> text, out |-> res.text,
                                      count |-> res.count, s |-> res.s, c |-> res.c,
                                      e |-> res.e])
           /\ IF res.count = 0
              THEN /\ exit' = 1
                   /\ msg' = r.vis
                   /\ pc' = pc
              ELSE /\ pc' = pc + 1
                   /\ UNCHANGED <<exit, msg>>
    /\ UNCHANGED <<file, run, before, reads, writes, outcomes>>

\* ReplaceDocblock that substitutes in the contents of the file instead of in `text`
ReplaceDocblockFromFile ==
    /\ exit = -1 /\ pc \in 1..NumRequests
    /\ LET r == Requests[pc]
           res == Subn(file, r.name, r.block, r.vis)
       IN  /\ text' = res.text
           /\ calls' = Append(calls, [i |-> pc, in |-> file, out |-> res.text,
                                      count |-> res.count, s |-> res.s, c |-> res.c,
                                      e |-> res.e])
           /\ IF res.count = 0
              THEN /\ exit' = 1
                   /\ msg' = r.name
                   /\ pc' = pc
              ELSE /\ pc' = pc + 1
                   /\ UNCHANGED <<exit, msg>>
    /\ UNCHANGED <<file, run, before, reads, writes, outcomes>>

\* replace_docblock(func_name, new_block, visibility), the pc-th of the six calls
ReplaceDocblock ==
    /\ exit = -1 /\ pc \in 1..NumRequests
    /\ LET r == Requests[pc]
           res == Subn(text, r.name, r.block, r.vis)
       IN  /\ text' = res.text
           /\ calls' = Append(calls, [i |-> pc, in |-> text, out |-> res.text,
                                      count |-> res.count, s |-> res.s, c |-> res.c,
                                      e |-> res.e])
           /\ IF res.count = 0
              THEN /\ exit' = 1
                   /\ msg' = r.name
                   /\ pc' = pc
              ELSE /\ pc' = pc + 1
                   /\ UNCHANGED <<exit, msg>>
    /\ UNCHANGED <<file, run, before, reads, writes, outcomes>>

\* path.write_text(text, encoding="utf-8"), after which the process ends
Write ==
    /\ exit = -1 /\ pc = NumRequests + 1
    /\ file' = text
    /\ writes' = writes + 1
    /\ pc' = NumRequests + 2
    /\ exit' = 0
    /\ UNCHANGED <<text, msg, run, before, reads, calls, outcomes>>

\* the script is started again on the file the previous invocation left
Restart ==
    /\ exit # -1 /\ run < MaxRuns
    /\ outcomes' = Append(outcomes, [exit |-> exit, msg |-> msg, before |-> before])
    /\ run' = run + 1
    /\ before' = file
    /\ text' = <<>>
    /\ pc' = 0
    /\ exit' = -1
    /\ msg' = ""
    /\ reads' = 0
    /\ writes' = 0
    /\ calls' = <<>>
    /\ UNCHANGED file

Next == Read \/ ReplaceDocblock \/ Write \/ Restart

Spec == Init /\ [][Next]_vars

\* ---------------------------------------------------------------- replace_docblock alone
\* One call of replace_docblock, with any of the six configured argument triples, on any
\* buffer.
InitOne ==
    /\ file \in Files
    /\ text = file
    /\ pc \in 1..NumRequests
    /\ exit = -1
    /\ msg = ""
    /\ run = 1
    /\ before = file
    /\ reads = 1
    /\ writes = 0
    /\ calls = <<>>
    /\ outcomes = <<>>

CallOnce == calls = <<>> /\ ReplaceDocblock

NextOne == CallOnce

SpecOne == InitOne /\ [][NextOne]_vars

\* ---------------------------------------------------------------- properties
Req(k) == Requests[calls[k].i]
Matched == {k \in 1..Len(calls) : calls[k].count >= 1}

\* a declaration header `vis function name(` starting at position p
DeclaredAt(s, p, name, vis) ==
    LET b == SkipWs(s, p + 1)
        c == SkipWs(s, b + 1)
        d == SkipWs(s, c + 1)
    IN  /\ p <= Len(s) /\ s[p] = vis
        /\ b > p + 1 /\ b <= Len(s) /\ s[b] = "function"
        /\ c > b + 1 /\ c <= Len(s) /\ s[c] = name
        /\ d <= Len(s) /\ s[d] = "("

Declared(s, name, vis) == \E p \in 1..Len(s) : DeclaredAt(s, p, name, vis)

\* C1: a request with no match in the buffer handed to it is the last call of the run: the
\* process has failed there, no later request was attempted, and the file still holds what
\* it held when the run started.
FailFastNoOutput ==
    \A k \in 1..Len(calls) :
        Search(calls[k].in, Requests[k].name, Requests[k].vis).s = 0
        => /\ k = Len(calls)
           /\ pc = k
           /\ exit = 1
           /\ writes = 0
           /\ file = before

\* a run that failed at its third request or later, after earlier requests changed the buffer
FailFastWitness ==
    /\ exit = 1 /\ Len(calls) >= 3 /\ text # before /\ file = before
    /\ Search(calls[Len(calls)].in, Requests[Len(calls)].name, Requests[Len(calls)].vis).s = 0

\* C2: the comment part of a matched span holds no */ before the one that closes it.
CommentStopsAtFirstClose ==
    \A k \in Matched :
        \A q \in (calls[k].s + 3)..(calls[k].c - 1) :
            ~(calls[k].in[q] = "*" /\ calls[k].in[q + 1] = "/")

\* the result of replacing, for each request in turn, only the documentation block nearest
\* before the request's first declaration
RECURSIVE SwapDocs(_, _)
SwapDocs(s, k) ==
    IF k > NumRequests THEN s
    ELSE LET r == Requests[k]
             m == SearchNearest(s, r.name, r.vis)
         IN  IF m.s = 0 THEN s
             ELSE SwapDocs(SubSeq(s, 1, m.s - 1) \o r.block \o <<"\n">> \o Sp4
                              \o SubSeq(s, SkipWs(s, m.c + 2), Len(s)), k + 1)

HasAllSix(s) ==
    \A k \in 1..NumRequests : SearchNearest(s, Requests[k].name, Requests[k].vis).s # 0

\* C3: on a file holding all six documentation-block/function pairs the run succeeds and
\* changes the six documentation blocks only.
SixSpansOnly ==
    HasAllSix(before)
    => /\ exit # 1
       /\ exit = 0 => file = SwapDocs(before, 1)

\* C4: the declaration header of a matched span reads the same in the output as in the input.
HeaderUntouched ==
    \A k \in Matched :
        LET c == calls[k]
            h == SkipWs(c.in, c.c + 2)
            e2 == Len(c.out) - (Len(c.in) - c.e)
        IN  SubSeq(c.out, e2 - (c.e - h), e2) = SubSeq(c.in, h, c.e)

\* C5: a run that follows a successful run fails.
SecondRunFails ==
    (outcomes # <<>> /\ outcomes[Len(outcomes)].exit = 0) => exit # 0

\* C5, amended: when the file a successful run started from holds at most one
\* `*/ public function __construct(`, the run that follows it fails at its first request,
\* naming __construct.
SecondRunFailsWhenDeclaredOnce ==
    (/\ outcomes # <<>>
     /\ outcomes[Len(outcomes)].exit = 0
     /\ Cardinality(Tails(outcomes[Len(outcomes)].before,
                          Requests[1].name, Requests[1].vis)) <= 1)
    => /\ pc <= 1
       /\ exit # 0
       /\ exit = 1 => msg = Requests[1].name

\* a second run that failed after a first run that succeeded
SecondRunFailsWitness ==
    /\ outcomes # <<>>
    /\ outcomes[Len(outcomes)].exit = 0
    /\ Cardinality(Tails(outcomes[Len(outcomes)].before,
                         Requests[1].name, Requests[1].vis)) = 1
    /\ exit = 1 /\ msg = "__construct"

\* C6: when the buffer holds a further match after the first one, the output is the input
\* with the first matched span alone replaced: the text before it and the text after it,
\* the further match included, are the same symbols in the same order.
OnlyFirstOccurrence ==
    \A k \in Matched :
        LET c == calls[k]
            rest == SubSeq(c.in, c.e + 1, Len(c.in))
            m2 == Search(rest, Req(k).name, Req(k).vis)
            e2 == Len(c.out) - Len(rest)
        IN  m2.s # 0
            => /\ c.count = 1
               /\ SubSeq(c.out, 1, c.s - 1) = SubSeq(c.in, 1, c.s - 1)
               /\ SubSeq(c.out, e2 + 1, Len(c.out)) = rest
               /\ SubSeq(c.out, e2 + m2.s, e2 + m2.e) = SubSeq(c.in, c.e + m2.s, c.e + m2.e)
               /\ e2 = c.s - 1 + Len(Req(k).block) + 11

\* a call that matched on a buffer holding a second match
OnlyFirstOccurrenceWitness ==
    \E k \in Matched :
        Search(SubSeq(calls[k].in, calls[k].e + 1, Len(calls[k].in)),
               Req(k).name, Req(k).vis).s # 0

\* C7: a request for a function the buffer declares only with the other visibility keyword
\* matches nothing: the call fails naming the function and the buffer is left as it was.
VisibilityMismatchFails ==
    \A k \in 1..Len(calls) :
        (/\ ~Declared(calls[k].in, Req(k).name, Req(k).vis)
         /\ Declared(calls[k].in, Req(k).name, Other(Req(k).vis)))
        => /\ calls[k].count = 0
           /\ calls[k].out = calls[k].in
           /\ text = calls[k].in
           /\ exit = 1
           /\ msg = Req(k).name

\* a call for a function that a documentation block precedes, declared with the other keyword
VisibilityMismatchWitness ==
    \E k \in 1..Len(calls) :
        /\ ~Declared(calls[k].in, Req(k).name, Req(k).vis)
        /\ Tails(calls[k].in, Req(k).name, Other(Req(k).vis)) # {}
        /\ \E i \in 1..Len(calls[k].in) : IsOpen(calls[k].in, i)
        /\ exit = 1

\* C8: a failed run has exit status 1 and a message naming the request of its last call,
\* which is the first request, in the fixed order, without a match in the buffer handed to
\* it; a message is there only when the run failed.
FailureNamesFirstMissing ==
    /\ exit \in {-1, 0, 1}
    /\ (msg # "") <=> (exit = 1)
    /\ exit = 1
       => /\ calls # <<>>
          /\ msg = Requests[Len(calls)].name
          /\ \A k \in 1..Len(calls) :
                (Search(calls[k].in, Requests[k].name, Requests[k].vis).s = 0)
                <=> (k = Len(calls))

\* a run that failed at a request after the first
FailureNamesWitness ==
    exit = 1 /\ Len(calls) >= 2 /\ msg = Requests[Len(calls)].name

\* C9: one read before the first call; the calls are requests 1, 2, ... in order, each once,
\* each on the buffer the one before it produced, the first on the contents read; one write
\* at most, after six calls that all matched, of the buffer the sixth produced.
RunOrdering ==
    /\ reads <= 1 /\ writes <= 1
    /\ Len(calls) <= NumRequests
    /\ calls # <<>> => (reads = 1 /\ calls[1].in = before)
    /\ \A k \in 1..Len(calls) : calls[k].i = k
    /\ \A k \in 1..(Len(calls) - 1) :
          calls[k].count = 1 /\ calls[k + 1].in = calls[k].out
    /\ writes = 1
       => /\ Len(calls) = NumRequests
          /\ calls[NumRequests].count = 1
          /\ file = calls[NumRequests].out
    /\ writes = 0 => file = before

\* a run that wrote a file differing from the one it read
RunOrderingWitness ==
    writes = 1 /\ exit = 0 /\ Len(calls) = NumRequests /\ file # before

\* C10: the output of a call that matched is the text before the matched span, the new
\* block, a newline and four spaces, `<visibility> function <name>(`, and the text after the
\* matched span; where the span is `/** old doc */`, whitespace and the header, the old
\* comment is gone and nothing else differs.
ResultShape ==
    \A k \in Matched :
        LET c == calls[k]
        IN  /\ IsOpen(c.in, c.s)
            /\ c.out = SubSeq(c.in, 1, c.s - 1)
                        \o Req(k).block
                        \o <<"\n", " ", " ", " ", " ">>
                        \o <<Req(k).vis, " ", "function", " ", Req(k).name, "(">>
                        \o SubSeq(c.in, c.e + 1, Len(c.in))
            /\ SubSeq(c.in, c.s, c.e) = OldDoc \o Gap \o Header(Req(k).name, Req(k).vis)
               => Len(c.out) = Len(c.in) - Len(OldDoc \o Gap) + Len(Req(k).block) + 5

\* the call for send on a buffer whose first documentation block is the one of send
ResultShapeWitness ==
    \E k \in Matched :
        /\ Req(k).name = "send"
        /\ SubSeq(calls[k].in, calls[k].s, calls[k].e) = OldDoc \o Gap \o Header("send", "public")
        /\ calls[k].s > 1 /\ calls[k].e < Len(calls[k].in)

====
